---- MODULE Spec2Model ----
(***************************************************************************)
(* A model of json-validator.cpp: the schema registry (root_schema), the   *)
(* schema compiler (schema::make and the node constructors) and the        *)
(* validation engine (the validate methods).                               *)
(*                                                                         *)
(* Compilation is recursive in the source (make -> get_or_create_ref ->    *)
(* make, make -> insert_unknown_keyword -> make).  The model keeps the     *)
(* call stack of schema::make explicitly: one frame per active call, and   *)
(* one action per registry operation or per section of make.  Validation   *)
(* mutates nothing and is one action computing the errors delivered to     *)
(* the caller's handler.                                                   *)
(***************************************************************************)
EXTENDS Integers, Sequences, FiniteSets, TLC

VARIABLES
    loader_,            \* root_schema::loader_ : "none" or the name of a loader
    format_,            \* root_schema::format_ : TRUE iff a format checker was given
    root_,              \* root_schema::root_   : node id, 0 is nullptr
    files_,             \* root_schema::files_  : location -> schema_file
    nodes,              \* the heap of nodes schema::make returned, by id
    stack,              \* active calls of schema::make, innermost last
    exc,                \* the exception in flight, "none" if none
    pc,                 \* position inside set_root_schema
    locations,          \* set_root_schema's local copy of the locations
    new_schema_loaded,  \* set_root_schema's local flag
    builds,             \* number of set_root_schema calls so far
    loads,              \* number of loader_ calls so far, per location
    outcome,            \* how each set_root_schema call ended, in order
    swallowed,          \* exceptions absorbed by catch (...) in this build
    lastSchema,         \* the argument of the latest set_root_schema call
    atCall,             \* root_ and the nodes when that call was made
    lastInstance,       \* the instance of the latest validate call
    lastResult          \* what the latest validate call did

vars == <<loader_, format_, root_, files_, nodes, stack, exc, pc, locations,
          new_schema_loaded, builds, loads, outcome, swallowed,
          lastSchema, atCall, lastInstance, lastResult>>

-----------------------------------------------------------------------------
(* Bounds of the model. *)

\* set_root_schema calls per validator
MaxBuilds == 2
\* loader_ calls per set_root_schema call
MaxLoads == 3
\* nested schema::make calls
MaxDepth == 6

-----------------------------------------------------------------------------
(* JSON values (nlohmann::json), tagged with json::value_t. *)

JNull == [t |-> "null"]
JBool(b) == [t |-> "boolean", b |-> b]
JStr(s) == [t |-> "string", s |-> s]
JInt(n) == [t |-> "number_integer", n |-> n]
JUns(n) == [t |-> "number_unsigned", n |-> n]
JObj(o) == [t |-> "object", o |-> o]
JArr(a) == [t |-> "array", a |-> a]

\* the value a JSON parser gives an integer literal
JNum(n) == IF n < 0 THEN JInt(n) ELSE JUns(n)

\* std::map<std::string, ...> iterates its keys in byte order
KeyOrder ==
    << "$id", "$ref", "0", "1", "2", "a", "additionalProperties", "allOf",
       "anyOf", "b", "bar", "c", "contains", "definitions", "description",
       "else", "exclusiveMaximum", "exclusiveMinimum", "foo", "format", "if",
       "items", "maximum", "minimum", "not", "oneOf", "p", "properties", "q",
       "then", "title", "type" >>

SortedKeys(S) == SelectSeq(KeyOrder, LAMBDA k : k \in S)

\* std::to_string of an array index, and back
IndexToken(i) == <<"0", "1", "2">>[i + 1]
TokenIndex(tok) == CHOOSE i \in 0..2 : IndexToken(i) = tok
IsIndex(tok) == tok \in {"0", "1", "2"}

Keys(j) == IF j.t = "object" THEN DOMAIN j.o ELSE {}
Has(j, k) == k \in Keys(j)
Without(j, ks) == JObj([k \in DOMAIN j.o \ ks |-> j.o[k]])

\* json::at(json_pointer): found is FALSE where the library throws
RECURSIVE JsonAt(_, _)
JsonAt(j, ptr) ==
    IF ptr = <<>> THEN [found |-> TRUE, v |-> j]
    ELSE IF j.t = "object" /\ Head(ptr) \in DOMAIN j.o
        THEN JsonAt(j.o[Head(ptr)], Tail(ptr))
    ELSE IF j.t = "array" /\ IsIndex(Head(ptr)) /\ TokenIndex(Head(ptr)) < Len(j.a)
        THEN JsonAt(j.a[TokenIndex(Head(ptr)) + 1], Tail(ptr))
    ELSE [found |-> FALSE, v |-> JNull]

\* json::operator[](json_pointer) = v: null becomes an object on the way
RECURSIVE JsonPut(_, _, _)
JsonPut(j, ptr, v) ==
    IF ptr = <<>> THEN v
    ELSE IF j.t = "array" /\ IsIndex(Head(ptr)) /\ TokenIndex(Head(ptr)) < Len(j.a)
        THEN JArr([j.a EXCEPT ![TokenIndex(Head(ptr)) + 1] =
                      JsonPut(j.a[TokenIndex(Head(ptr)) + 1], Tail(ptr), v)])
    ELSE LET o == IF j.t = "object" THEN j.o ELSE <<>>
             old == IF Head(ptr) \in DOMAIN o THEN o[Head(ptr)] ELSE JNull
         IN  JObj((Head(ptr) :> JsonPut(old, Tail(ptr), v)) @@ o)

\* the entry at ptr removed from j
RECURSIVE JsonRemove(_, _)
JsonRemove(j, ptr) ==
    IF ptr = <<>> THEN JNull
    ELSE IF j.t = "object" /\ Head(ptr) \in DOMAIN j.o
        THEN IF Len(ptr) = 1
             THEN Without(j, {Head(ptr)})
             ELSE JObj([j.o EXCEPT ![Head(ptr)] = JsonRemove(@, Tail(ptr))])
    ELSE IF j.t = "array" /\ IsIndex(Head(ptr)) /\ TokenIndex(Head(ptr)) < Len(j.a)
                          /\ Len(ptr) > 1
        THEN JArr([j.a EXCEPT ![TokenIndex(Head(ptr)) + 1] = JsonRemove(@, Tail(ptr))])
    ELSE j

-----------------------------------------------------------------------------
(* URIs (json_uri): a location and a JSON pointer, the pointer a sequence  *)
(* of unescaped tokens.  A reference string is kept in its parsed form     *)
(* [doc, frag]; doc = "" is a fragment-only reference.                     *)

Uri(loc, ptr) == [loc |-> loc, ptr |-> ptr]
RefStr(doc, frag) == JStr([doc |-> doc, frag |-> frag])

\* json_uri::append
UriAppend(uri, token) == [uri EXCEPT !.ptr = Append(@, token)]

\* json_uri::derive
Derive(base, rel) ==
    IF rel.doc = "" THEN Uri(base.loc, rel.frag) ELSE Uri(rel.doc, rel.frag)

\* json_uri(std::string)
UriOf(rel) == Uri(rel.doc, rel.frag)

RECURSIVE AppendKeys(_, _)
AppendKeys(uris, keys) ==
    IF keys = <<>> THEN uris
    ELSE AppendKeys([i \in DOMAIN uris |-> UriAppend(uris[i], Head(keys))], Tail(keys))

\* std::map<std::string, schema_file> iterates locations in byte order
LocOrder == << "", "ext1", "ext2", "id1" >>
SortedLocs(S) == SelectSeq(LocOrder, LAMBDA l : l \in S)

-----------------------------------------------------------------------------
(* Validator nodes.  The heap `nodes` holds what schema::make returns and  *)
(* the registry shares: boolean, type_schema and schema_ref objects.  The  *)
(* per-type validators and the logic nodes a type_schema owns are kept     *)
(* inside its record; their sub-schema links are node ids, 0 is nullptr.   *)

\* class boolean
BooleanNode(b) == [k |-> "boolean", true_ |-> b]

\* class schema_ref, as constructed: no target
SchemaRefNode(id) == [k |-> "schema_ref", id_ |-> id, target_ |-> 0]

NoValidator == [k |-> "nullptr"]

\* json::value_t, the index of type_schema::type_
ValueTypes ==
    {"null", "object", "array", "string", "boolean", "number_integer",
     "number_unsigned", "number_float"}

\* type_schema::type_schema, schema_types: JSON-schema type name, value_t
schema_types ==
    << <<"null", "null">>, <<"object", "object">>, <<"array", "array">>,
       <<"string", "string">>, <<"boolean", "boolean">>,
       <<"integer", "number_integer">>, <<"integer", "number_unsigned">>,
       <<"number", "number_float">> >>

TypesNamed(name) ==
    LET hit == SelectSeq(schema_types, LAMBDA e : e[1] = name)
    IN  [i \in DOMAIN hit |-> hit[i][2]]

RECURSIVE TypesOfList(_)
TypesOfList(a) ==
    IF a = <<>> THEN <<>>
    ELSE (IF Head(a).t = "string" THEN TypesNamed(Head(a).s) ELSE <<>>)
         \o TypesOfList(Tail(a))

\* the value_t's type_schema::type_schema builds a validator for, in order
TypeSeq(v) ==
    IF ~Has(v, "type") THEN [i \in DOMAIN schema_types |-> schema_types[i][2]]
    ELSE CASE v.o["type"].t = "string" -> TypesNamed(v.o["type"].s)
           [] v.o["type"].t = "array" -> TypesOfList(v.o["type"].a)
           [] OTHER -> <<>>

Range(s) == {s[i] : i \in DOMAIN s}

\* a number converted to T.  Only the order of converted values matters:
\* [w, n] stands for n + w * 2^64, so a negative number converted to the
\* unsigned type (n + 2^64) lies above every non-negative one.
Convert(T, j) ==
    IF T = "number_unsigned" /\ j.n < 0 THEN [w |-> 1, n |-> j.n]
    ELSE [w |-> 0, n |-> j.n]
Less(x, y) == x.w < y.w \/ (x.w = y.w /\ x.n < y.n)

Unset == <<FALSE, [w |-> 0, n |-> 0]>>

\* numeric<T>::numeric
NumericValidator(T, v) ==
    LET max1 == IF Has(v, "maximum") THEN <<TRUE, Convert(T, v.o["maximum"])>> ELSE Unset
        min1 == IF Has(v, "minimum") THEN <<TRUE, Convert(T, v.o["minimum"])>> ELSE Unset
    IN  [k |-> "numeric", T |-> T,
         maximum_ |-> IF Has(v, "exclusiveMaximum")
                      THEN <<TRUE, Convert(T, v.o["exclusiveMaximum"])>> ELSE max1,
         minimum_ |-> IF Has(v, "exclusiveMinimum")
                      THEN <<TRUE, Convert(T, v.o["exclusiveMinimum"])>> ELSE min1,
         exclusiveMaximum_ |-> Has(v, "exclusiveMaximum"),
         exclusiveMinimum_ |-> Has(v, "exclusiveMinimum")]

NumericKeywords == {"maximum", "minimum", "exclusiveMaximum", "exclusiveMinimum"}

\* string::string.  format_check_ is initialised to nullptr in the class and
\* no constructor or method assigns it.
StringValidator(v) ==
    [k |-> "string",
     format_ |-> IF Has(v, "format") THEN <<TRUE, v.o["format"].s>> ELSE <<FALSE, "">>,
     format_check_ |-> "nullptr"]

StringKeywords == {"format"}

Sub(subs, keys) == IF keys \in DOMAIN subs THEN subs[keys] ELSE 0

\* object::object
ObjectValidator(v, subs) ==
    [k |-> "object",
     required_ |-> IF Has(v, "required")
                   THEN [i \in DOMAIN v.o["required"].a |-> v.o["required"].a[i].s]
                   ELSE <<>>,
     properties_ |-> IF Has(v, "properties")
                     THEN [p \in Keys(v.o["properties"]) |-> Sub(subs, <<"properties", p>>)]
                     ELSE <<>>,
     additionalProperties_ |-> Sub(subs, <<"additionalProperties">>)]

ObjectKeywords == {"required", "properties", "additionalProperties"}

\* array::array
ArrayValidator(v, subs) ==
    [k |-> "array",
     items_schema_ |-> Sub(subs, <<"items">>),
     contains_ |-> Sub(subs, <<"contains">>)]

ArrayKeywords == {"items", "contains"}

\* type_schema::make
TypeValidator(tag, v, subs) ==
    CASE tag = "null" -> [k |-> "null"]
      [] tag = "boolean" -> [k |-> "boolean_type"]
      [] tag = "string" -> StringValidator(v)
      [] tag = "object" -> ObjectValidator(v, subs)
      [] tag = "array" -> ArrayValidator(v, subs)
      [] OTHER -> NumericValidator(tag, v)

\* the keywords the constructor of tag's validator erases from the schema
TypeKeywords(tag) ==
    CASE tag = "string" -> StringKeywords
      [] tag = "object" -> ObjectKeywords
      [] tag = "array" -> ArrayKeywords
      [] tag \in {"number_integer", "number_unsigned", "number_float"} -> NumericKeywords
      [] OTHER -> {}

LogicKeywords == <<"not", "allOf", "anyOf", "oneOf">>

\* logical_not::logical_not and logical_combination::logical_combination
LogicNode(key, v, subs) ==
    IF key = "not"
    THEN [k |-> "logical_not", subschema_ |-> Sub(subs, <<"not">>)]
    ELSE [k |-> "logical_combination", combine_logic |-> key,
          subschemata_ |-> IF v.o[key].t = "array"
                           THEN [i \in DOMAIN v.o[key].a |-> Sub(subs, <<key, IndexToken(i - 1)>>)]
                           ELSE <<>>]

HasIfBranches(v) == Has(v, "if") /\ (Has(v, "then") \/ Has(v, "else"))

\* type_schema::type_schema, the object it leaves
TypeSchemaNode(v, subs) ==
    LET built == Range(TypeSeq(v))
        t1 == [tag \in ValueTypes |->
                  IF tag \in built THEN TypeValidator(tag, v, subs) ELSE NoValidator]
        share == t1["number_float"] # NoValidator /\ t1["number_integer"] = NoValidator
        present == SelectSeq(LogicKeywords, LAMBDA key : Has(v, key))
    IN  [k |-> "type_schema",
         type_ |-> [tag \in ValueTypes |->
                      IF share /\ tag \in {"number_integer", "number_unsigned"}
                      THEN t1["number_float"] ELSE t1[tag]],
         logic_ |-> [i \in DOMAIN present |-> LogicNode(present[i], v, subs)],
         if_ |-> IF HasIfBranches(v) THEN Sub(subs, <<"if">>) ELSE 0,
         then_ |-> IF HasIfBranches(v) THEN Sub(subs, <<"then">>) ELSE 0,
         else_ |-> IF HasIfBranches(v) THEN Sub(subs, <<"else">>) ELSE 0]

\* the keys type_schema::type_schema and the validators it builds erase
ConsumedKeys(v) ==
    {"type"} \cup UNION {TypeKeywords(tag) : tag \in Range(TypeSeq(v))}
    \cup Range(LogicKeywords)
    \cup (IF Has(v, "if") THEN {"if", "then", "else"} ELSE {})

\* schema::make, the annotations erased after $ref or the constructor
Annotations == {"$schema", "default", "title", "description"}

SubCall(keys, val) == [keys |-> keys, val |-> val]

\* the schema::make calls of one validator's constructor, in call order
TypeSubMakes(tag, v) ==
    CASE tag = "object" ->
           (IF Has(v, "properties")
            THEN LET ks == SortedKeys(Keys(v.o["properties"]))
                 IN  [i \in DOMAIN ks |->
                        SubCall(<<"properties", ks[i]>>, v.o["properties"].o[ks[i]])]
            ELSE <<>>)
           \o (IF Has(v, "additionalProperties")
               THEN <<SubCall(<<"additionalProperties">>, v.o["additionalProperties"])>>
               ELSE <<>>)
      [] tag = "array" ->
           (IF Has(v, "items") /\ v.o["items"].t \in {"object", "boolean"}
            THEN <<SubCall(<<"items">>, v.o["items"])>> ELSE <<>>)
           \o (IF Has(v, "contains")
               THEN <<SubCall(<<"contains">>, v.o["contains"])>> ELSE <<>>)
      [] OTHER -> <<>>

RECURSIVE TypesSubMakes(_, _)
TypesSubMakes(tags, v) ==
    IF tags = <<>> THEN <<>>
    ELSE TypeSubMakes(Head(tags), v) \o TypesSubMakes(Tail(tags), Without(v, TypeKeywords(Head(tags))))

LogicSubMakes(key, v) ==
    IF ~Has(v, key) THEN <<>>
    ELSE IF key = "not" THEN <<SubCall(<<"not">>, v.o["not"])>>
    ELSE IF v.o[key].t = "array"
         THEN [i \in DOMAIN v.o[key].a |-> SubCall(<<key, IndexToken(i - 1)>>, v.o[key].a[i])]
         ELSE <<>>

\* every schema::make call type_schema::type_schema makes, in call order
SubMakes(v) ==
    TypesSubMakes(TypeSeq(v), v)
    \o LogicSubMakes("not", v) \o LogicSubMakes("allOf", v)
    \o LogicSubMakes("anyOf", v) \o LogicSubMakes("oneOf", v)
    \o (IF HasIfBranches(v)
        THEN <<SubCall(<<"if">>, v.o["if"])>>
             \o (IF Has(v, "then") THEN <<SubCall(<<"then">>, v.o["then"])>> ELSE <<>>)
             \o (IF Has(v, "else") THEN <<SubCall(<<"else">>, v.o["else"])>> ELSE <<>>)
        ELSE <<>>)

-----------------------------------------------------------------------------
(* The registry: root_schema::files_ and its schema_file entries. *)

\* struct schema_file, as default-constructed
EmptyFile == [schemas |-> <<>>, unresolved |-> <<>>, unknown_keywords |-> JNull]

\* root_schema::get_or_create_file: files_ with an entry for loc
get_or_create_file(fs, loc) == IF loc \in DOMAIN fs THEN fs ELSE (loc :> EmptyFile) @@ fs

MapErase(f, key) == [x \in DOMAIN f \ {key} |-> f[x]]
MapInsert(f, key, val) == (key :> val) @@ f

-----------------------------------------------------------------------------
(* Frames: the active calls of schema::make.                               *)
(*   pc    where the call stands: "begin", "definitions", "ref",           *)
(*         "promoting" (inside the try of get_or_create_ref), "promoted",  *)
(*         "ctor" (inside type_schema::type_schema), "post"                *)
(*   ctx   who called: "root", "load" (set_root_schema), "definitions",    *)
(*         "sub" (a constructor), "promote" (get_or_create_ref), "iuk"     *)
(*         (insert_unknown_keyword)                                        *)
(*   slot  for "sub": the keys of the call, naming the member it fills     *)
(*   uris  the uris argument, keys already appended                        *)
(*   val   the schema argument when it lives outside the registry          *)
(*   ref   where the schema argument lives inside unknown_keywords, for    *)
(*         a reference into it (NoRef otherwise)                           *)
(*   sch   the local sch: node id, 0 is nullptr                            *)
(*   todo  the calls or registry operations still to make in this section  *)
(*   subs  what the constructor's schema::make calls returned, by keys     *)
(*   id    the uri get_or_create_ref was called with                       *)

NoRef == Uri("none", <<>>)

NewFrame(ctx, slot, uris, val, ref) ==
    [pc |-> "begin", ctx |-> ctx, slot |-> slot, uris |-> uris, val |-> val,
     ref |-> ref, sch |-> 0, todo |-> <<>>, subs |-> <<>>, id |-> NoRef]

Top == stack[Len(stack)]
Pop == SubSeq(stack, 1, Len(stack) - 1)
SetTop(f) == [stack EXCEPT ![Len(stack)] = f]
Running(p) == exc = "none" /\ stack # <<>> /\ Top.pc = p

\* the json a frame's schema argument refers to
ValueOf(fs, f) ==
    IF f.ref = NoRef THEN f.val
    ELSE IF f.ref.loc \in DOMAIN fs
         THEN JsonAt(fs[f.ref.loc].unknown_keywords, f.ref.ptr).v
         ELSE JNull

\* where a member of a frame's schema lives
ChildRef(f, keys) == IF f.ref = NoRef THEN NoRef ELSE Uri(f.ref.loc, f.ref.ptr \o keys)

\* schema.erase(key) for each key of ks: the frame ...
FrameErase(fs, f, ks) ==
    IF f.ref = NoRef /\ f.val.t = "object" THEN [f EXCEPT !.val = Without(@, ks)] ELSE f

\* ... and the registry, when the schema is a reference into unknown_keywords
FilesErase(fs, f, ks) ==
    IF f.ref # NoRef /\ f.ref.loc \in DOMAIN fs /\ ValueOf(fs, f).t = "object"
    THEN [fs EXCEPT ![f.ref.loc].unknown_keywords =
              JsonPut(@, f.ref.ptr, Without(ValueOf(fs, f), ks))]
    ELSE fs

PostOp(op, uri, key) == [op |-> op, uri |-> uri, key |-> key]

\* schema::make, the loop over uris: insert, then insert_unknown_keyword for
\* each key left in the schema
RECURSIVE PostOps(_, _)
PostOps(uris, keys) ==
    IF uris = <<>> THEN <<>>
    ELSE <<PostOp("insert", Head(uris), "")>>
         \o [i \in DOMAIN keys |-> PostOp("iuk", Head(uris), keys[i])]
         \o PostOps(Tail(uris), keys)

\* schema::make from the erase of $ref or the constructor's return up to the
\* loop over uris: the annotations go, the loop is set up
EnterPost(fs, f, sch, ks) ==
    LET left == Keys(ValueOf(fs, f)) \ (ks \cup Annotations)
    IN  [FrameErase(fs, f, ks \cup Annotations) EXCEPT
            !.pc = "post", !.sch = sch, !.todo = PostOps(f.uris, SortedKeys(left))]

\* a return of schema::make to its caller
Return(value) ==
    LET f == Top
        rest == Pop
    IN  CASE f.ctx = "root" ->
               /\ stack' = rest
               /\ root_' = value
               /\ pc' = "loop_start"
               /\ UNCHANGED <<locations, new_schema_loaded>>
          [] f.ctx = "load" ->
               /\ stack' = rest
               /\ new_schema_loaded' = TRUE
               /\ locations' = Tail(locations)
               /\ UNCHANGED <<root_, pc>>
          [] f.ctx = "sub" ->
               /\ stack' = [rest EXCEPT ![Len(rest)].subs = MapInsert(@, f.slot, value)]
               /\ UNCHANGED <<root_, pc, locations, new_schema_loaded>>
          [] f.ctx = "promote" ->
               /\ stack' = [rest EXCEPT ![Len(rest)].sch = value,
                                        ![Len(rest)].pc = "promoted"]
               /\ UNCHANGED <<root_, pc, locations, new_schema_loaded>>
          [] OTHER ->
               /\ stack' = rest
               /\ UNCHANGED <<root_, pc, locations, new_schema_loaded>>

Validator == <<loader_, format_>>
Callers == <<builds, loads, outcome, lastSchema, atCall, lastInstance, lastResult>>

-----------------------------------------------------------------------------
(* schema::make *)

\* the uris after the $id of v, if any, was pushed
WithId(uris, v) ==
    IF ~Has(v, "$id") THEN uris
    ELSE IF \E i \in DOMAIN uris : uris[i] = UriOf(v.o["$id"].s) THEN uris
    ELSE Append(uris, Derive(uris[Len(uris)], v.o["$id"].s))

\* schema::make up to the loop over definitions; a value that is neither a
\* boolean nor an object returns nullptr
MakeBegin ==
    /\ Running("begin")
    /\ LET f == Top
           v == ValueOf(files_, f)
       IN  CASE v.t = "boolean" ->
                  /\ nodes' = Append(nodes, BooleanNode(v.b))
                  /\ stack' = SetTop([f EXCEPT !.pc = "post", !.sch = Len(nodes) + 1,
                                               !.todo = PostOps(f.uris, <<>>)])
                  /\ UNCHANGED <<files_, root_, pc, locations, new_schema_loaded>>
             [] v.t = "object" ->
                  /\ stack' = SetTop([FrameErase(files_, f, {"$id"}) EXCEPT
                         !.pc = "definitions",
                         !.uris = WithId(f.uris, v),
                         !.todo = IF Has(v, "definitions")
                                  THEN SortedKeys(Keys(v.o["definitions"])) ELSE <<>>])
                  /\ files_' = FilesErase(files_, f, {"$id"})
                  /\ UNCHANGED <<nodes, root_, pc, locations, new_schema_loaded>>
             [] OTHER ->
                  /\ Return(0)
                  /\ UNCHANGED <<files_, nodes>>
    /\ UNCHANGED <<exc, swallowed>>
    /\ UNCHANGED Validator /\ UNCHANGED Callers

\* schema::make, one turn of the loop over definitions
MakeDefinition ==
    /\ Running("definitions")
    /\ Top.todo # <<>>
    /\ Len(stack) < MaxDepth
    /\ LET f == Top
           name == Head(f.todo)
           keys == <<"definitions", name>>
           v == ValueOf(files_, f)
       IN  stack' = Append(SetTop([f EXCEPT !.todo = Tail(@)]),
                           NewFrame("definitions", <<>>, AppendKeys(f.uris, keys),
                                    v.o["definitions"].o[name], ChildRef(f, keys)))
    /\ UNCHANGED <<files_, nodes, root_, pc, locations, new_schema_loaded, exc, swallowed>>
    /\ UNCHANGED Validator /\ UNCHANGED Callers

\* schema::make after the definitions: they are erased; a $ref goes to
\* get_or_create_ref, anything else to type_schema::type_schema
MakeDispatch ==
    /\ Running("definitions")
    /\ Top.todo = <<>>
    /\ LET f == Top
           v == ValueOf(files_, f)
           g == FrameErase(files_, f, {"definitions"})
       IN  /\ stack' = SetTop(IF Has(v, "$ref")
                              THEN [g EXCEPT !.pc = "ref"]
                              ELSE [g EXCEPT !.pc = "ctor", !.todo = SubMakes(v)])
           /\ files_' = FilesErase(files_, f, {"definitions"})
    /\ UNCHANGED <<nodes, root_, pc, locations, new_schema_loaded, exc, swallowed>>
    /\ UNCHANGED Validator /\ UNCHANGED Callers

\* one schema::make call of type_schema::type_schema or of a constructor
\* it runs
SubMake ==
    /\ Running("ctor")
    /\ Top.todo # <<>>
    /\ Len(stack) < MaxDepth
    /\ LET f == Top
           call == Head(f.todo)
       IN  stack' = Append(SetTop([f EXCEPT !.todo = Tail(@)]),
                           NewFrame("sub", call.keys, AppendKeys(f.uris, call.keys),
                                    call.val, ChildRef(f, call.keys)))
    /\ UNCHANGED <<files_, nodes, root_, pc, locations, new_schema_loaded, exc, swallowed>>
    /\ UNCHANGED Validator /\ UNCHANGED Callers

\* type_schema::type_schema returns: the node exists, its keywords are erased
TypeSchemaDone ==
    /\ Running("ctor")
    /\ Top.todo = <<>>
    /\ LET f == Top
           v == ValueOf(files_, f)
       IN  /\ nodes' = Append(nodes, TypeSchemaNode(v, f.subs))
           /\ stack' = SetTop(EnterPost(files_, f, Len(nodes) + 1, ConsumedKeys(v)))
           /\ files_' = FilesErase(files_, f, ConsumedKeys(v) \cup Annotations)
    /\ UNCHANGED <<root_, pc, locations, new_schema_loaded, exc, swallowed>>
    /\ UNCHANGED Validator /\ UNCHANGED Callers

\* schema::make returns sch
MakeReturn ==
    /\ Running("post")
    /\ Top.todo = <<>>
    /\ Return(Top.sch)
    /\ UNCHANGED <<files_, nodes, exc, swallowed>>
    /\ UNCHANGED Validator /\ UNCHANGED Callers

-----------------------------------------------------------------------------
(* The registry operations of root_schema. *)

\* insert that binds the waiting schema_ref and forgets unresolved.erase
insert_keeps_unresolved(fs, ns, uri, s) ==
    LET fs1 == get_or_create_file(fs, uri.loc)
        file == fs1[uri.loc]
    IN  IF uri.ptr \in DOMAIN file.schemas
        THEN [files |-> fs1, nodes |-> ns, exc |-> "DuplicateSchema"]
        ELSE [files |-> [fs1 EXCEPT ![uri.loc].schemas = MapInsert(@, uri.ptr, s)],
              nodes |-> IF uri.ptr \in DOMAIN file.unresolved
                        THEN [ns EXCEPT ![file.unresolved[uri.ptr]].target_ = s]
                        ELSE ns,
              exc |-> "none"]

\* insert that looks for a waiting schema_ref at the pointer in every file
\* instead of the file of uri
insert_binds_every_file(fs, ns, uri, s) ==
    LET fs1 == get_or_create_file(fs, uri.loc)
        file == fs1[uri.loc]
        waiting == {fs1[loc].unresolved[uri.ptr] :
                        loc \in {l \in DOMAIN fs1 : uri.ptr \in DOMAIN fs1[l].unresolved}}
    IN  IF uri.ptr \in DOMAIN file.schemas
        THEN [files |-> fs1, nodes |-> ns, exc |-> "DuplicateSchema"]
        ELSE [files |-> [fs1 EXCEPT ![uri.loc].schemas = MapInsert(@, uri.ptr, s),
                                    ![uri.loc].unresolved = MapErase(@, uri.ptr)],
              nodes |-> [i \in DOMAIN ns |->
                            IF i \in waiting THEN [ns[i] EXCEPT !.target_ = s] ELSE ns[i]],
              exc |-> "none"]

\* insert that assigns schemas[pointer] without looking for an entry first
insert_overwrites(fs, ns, uri, s) ==
    LET fs1 == get_or_create_file(fs, uri.loc)
        file == fs1[uri.loc]
    IN  IF uri.ptr \in DOMAIN file.unresolved
        THEN [files |-> [fs1 EXCEPT ![uri.loc].schemas = MapInsert(@, uri.ptr, s),
                                    ![uri.loc].unresolved = MapErase(@, uri.ptr)],
              nodes |-> [ns EXCEPT ![file.unresolved[uri.ptr]].target_ = s],
              exc |-> "none"]
        ELSE [files |-> [fs1 EXCEPT ![uri.loc].schemas = MapInsert(@, uri.ptr, s)],
              nodes |-> ns,
              exc |-> "none"]

\* root_schema::insert: the registry and the heap after it, and what it threw
insert(fs, ns, uri, s) ==
    LET fs1 == get_or_create_file(fs, uri.loc)
        file == fs1[uri.loc]
    IN  IF uri.ptr \in DOMAIN file.schemas
        THEN [files |-> fs1, nodes |-> ns, exc |-> "DuplicateSchema"]
        ELSE IF uri.ptr \in DOMAIN file.unresolved
        THEN [files |-> [fs1 EXCEPT ![uri.loc].schemas = MapInsert(@, uri.ptr, s),
                                    ![uri.loc].unresolved = MapErase(@, uri.ptr)],
              nodes |-> [ns EXCEPT ![file.unresolved[uri.ptr]].target_ = s],
              exc |-> "none"]
        ELSE [files |-> [fs1 EXCEPT ![uri.loc].schemas = MapInsert(@, uri.ptr, s)],
              nodes |-> ns,
              exc |-> "none"]

\* root_schema::insert_unknown_keyword: whether it compiles value now
\* (a reference is waiting for the pointer), and the registry after it if not
insert_unknown_keyword(fs, uri, key, value) ==
    LET fs1 == get_or_create_file(fs, uri.loc)
        new_uri == UriAppend(uri, key)
    IN  IF new_uri.ptr \in DOMAIN fs1[uri.loc].unresolved
        THEN [make |-> TRUE, new_uri |-> new_uri, files |-> fs1]
        ELSE [make |-> FALSE, new_uri |-> new_uri,
              files |-> [fs1 EXCEPT ![uri.loc].unknown_keywords =
                                        JsonPut(@, new_uri.ptr, value)]]

\* root_schema::get_or_create_ref, the two lookups: "schema" if a schema is
\* registered at uri, "unknown" if unknown_keywords holds a value there
RefLookup(fs, uri) ==
    LET file == get_or_create_file(fs, uri.loc)[uri.loc]
    IN  IF uri.ptr \in DOMAIN file.schemas THEN "schema"
        ELSE IF JsonAt(file.unknown_keywords, uri.ptr).found THEN "unknown"
        ELSE "none"

\* root_schema::get_or_create_ref, its last section: the schema_ref waiting
\* at uri, created if there is none
GetOrCreateSchemaRef(fs, ns, uri) ==
    LET fs1 == get_or_create_file(fs, uri.loc)
        file == fs1[uri.loc]
    IN  IF uri.ptr \in DOMAIN file.unresolved
        THEN [files |-> fs1, nodes |-> ns, sch |-> file.unresolved[uri.ptr]]
        ELSE [files |-> [fs1 EXCEPT ![uri.loc].unresolved =
                                        MapInsert(@, uri.ptr, Len(ns) + 1)],
              nodes |-> Append(ns, SchemaRefNode(uri)),
              sch |-> Len(ns) + 1]

\* schema::make, one insert of the loop over uris
Insert ==
    /\ Running("post")
    /\ Top.todo # <<>>
    /\ Head(Top.todo).op = "insert"
    /\ LET f == Top
           r == insert(files_, nodes, Head(f.todo).uri, f.sch)
       IN  /\ files_' = r.files
           /\ nodes' = r.nodes
           /\ exc' = r.exc
           /\ stack' = IF r.exc = "none" THEN SetTop([f EXCEPT !.todo = Tail(@)]) ELSE stack
    /\ UNCHANGED <<root_, pc, locations, new_schema_loaded, swallowed>>
    /\ UNCHANGED Validator /\ UNCHANGED Callers

\* schema::make, one insert_unknown_keyword of the loop over uris
InsertUnknownKeyword ==
    /\ Running("post")
    /\ Top.todo # <<>>
    /\ Head(Top.todo).op = "iuk"
    /\ Len(stack) < MaxDepth
    /\ LET f == Top
           op == Head(f.todo)
           v == ValueOf(files_, f)
           value == IF Has(v, op.key) THEN v.o[op.key] ELSE JNull
           r == insert_unknown_keyword(files_, op.uri, op.key, value)
           g == [f EXCEPT !.todo = Tail(@)]
       IN  /\ files_' = r.files
           /\ stack' = IF r.make
                       THEN Append(SetTop(g),
                                   NewFrame("iuk", <<>>, <<r.new_uri>>, value,
                                            ChildRef(f, <<op.key>>)))
                       ELSE SetTop(g)
    /\ UNCHANGED <<nodes, root_, pc, locations, new_schema_loaded, exc, swallowed>>
    /\ UNCHANGED Validator /\ UNCHANGED Callers

\* the uri a frame standing at its $ref refers to
RefId(fs, f) == Derive(f.uris[Len(f.uris)], ValueOf(fs, f).o["$ref"].s)

\* schema::make at $ref and root_schema::get_or_create_ref up to its return
\* or, for an unknown keyword, up to its call of schema::make
GetOrCreateRef ==
    /\ Running("ref")
    /\ Len(stack) < MaxDepth
    /\ LET f == Top
           id == RefId(files_, f)
           fs1 == get_or_create_file(files_, id.loc)
           found == RefLookup(files_, id)
           r == GetOrCreateSchemaRef(files_, nodes, id)
       IN  CASE found = "schema" ->
                  /\ stack' = SetTop(EnterPost(fs1, f, fs1[id.loc].schemas[id.ptr], {"$ref"}))
                  /\ files_' = FilesErase(fs1, f, {"$ref"} \cup Annotations)
                  /\ nodes' = nodes
             [] found = "unknown" ->
                  /\ stack' = Append(SetTop([f EXCEPT !.pc = "promoting", !.id = id]),
                                     NewFrame("promote", <<>>, <<id>>, JNull, id))
                  /\ files_' = fs1
                  /\ nodes' = nodes
             [] OTHER ->
                  /\ stack' = SetTop(EnterPost(r.files, f, r.sch, {"$ref"}))
                  /\ files_' = FilesErase(r.files, f, {"$ref"} \cup Annotations)
                  /\ nodes' = r.nodes
    /\ UNCHANGED <<root_, pc, locations, new_schema_loaded, exc, swallowed>>
    /\ UNCHANGED Validator /\ UNCHANGED Callers

\* root_schema::get_or_create_ref after schema::make returned s inside the
\* try: the unknown keyword is erased and s returned; erase throws on a
\* unknown_keywords that is no object, which the catch (...) absorbs
PromoteReturn ==
    /\ Running("promoted")
    /\ LET f == Top
           store == files_[f.id.loc].unknown_keywords
           erased == [files_ EXCEPT ![f.id.loc].unknown_keywords = JsonRemove(@, f.id.ptr)]
           r == GetOrCreateSchemaRef(files_, nodes, f.id)
       IN  IF store.t = "object"
           THEN /\ stack' = SetTop(EnterPost(erased, f, f.sch, {"$ref"}))
                /\ files_' = FilesErase(erased, f, {"$ref"} \cup Annotations)
                /\ nodes' = nodes
                /\ swallowed' = swallowed
           ELSE /\ stack' = SetTop(EnterPost(r.files, f, r.sch, {"$ref"}))
                /\ files_' = FilesErase(r.files, f, {"$ref"} \cup Annotations)
                /\ nodes' = r.nodes
                /\ swallowed' = swallowed \cup {"type_error"}
    /\ UNCHANGED <<root_, pc, locations, new_schema_loaded, exc>>
    /\ UNCHANGED Validator /\ UNCHANGED Callers

\* root_schema::get_or_create_ref, catch (...): whatever schema::make threw
\* inside the try is dropped and the schema_ref section runs
PromoteCatch ==
    /\ exc # "none"
    /\ stack # <<>>
    /\ Top.pc = "promoting"
    /\ LET f == Top
           r == GetOrCreateSchemaRef(files_, nodes, f.id)
       IN  /\ stack' = SetTop(EnterPost(r.files, f, r.sch, {"$ref"}))
           /\ files_' = FilesErase(r.files, f, {"$ref"} \cup Annotations)
           /\ nodes' = r.nodes
    /\ exc' = "none"
    /\ swallowed' = swallowed \cup {exc}
    /\ UNCHANGED <<root_, pc, locations, new_schema_loaded>>
    /\ UNCHANGED Validator /\ UNCHANGED Callers

\* an exception leaves a call of schema::make that has no handler
Unwind ==
    /\ exc # "none"
    /\ stack # <<>>
    /\ Top.pc # "promoting"
    /\ stack' = Pop
    /\ UNCHANGED <<files_, nodes, root_, pc, locations, new_schema_loaded, exc, swallowed>>
    /\ UNCHANGED Validator /\ UNCHANGED Callers

-----------------------------------------------------------------------------
(* Validation.  A validate call is described by what it does to the        *)
(* handler it was given and by how it ends:                                *)
(*   errs  the errors it delivered to the handler e, in order              *)
(*   end   "returns"; "nullptr" when it calls validate through a null      *)
(*         shared_ptr (undefined behaviour); "recursion" when it calls     *)
(*         validate on a node with an instance that same call is already   *)
(*         validating further up the stack, which never returns            *)
(* path is the set of <<node, instance>> pairs being validated up the      *)
(* stack.                                                                  *)

Result(errs, end) == [errs |-> errs, end |-> end]
Pass == Result(<<>>, "returns")
Error(kind) == Result(<<kind>>, "returns")

\* statement r, then statement s unless r did not return
Then(r, s) == IF r.end # "returns" THEN r ELSE Result(r.errs \o s.errs, s.end)

\* a validate call made with a handler of its own: its errors stay there
\* (basic_error_handler::operator bool tells whether there were any)
Trial(r) == [failed |-> r.errs # <<>>, end |-> r.end]

\* the injected format checker: an external callback; here it rejects "bad"
FormatChecker(name, value) == IF value = "bad" THEN Error("FormatViolation") ELSE Pass

\* string::validate
ValidateString(val, instance) ==
    IF val.format_[1]
    THEN IF val.format_check_ = "nullptr"
         THEN Error("FormatWithoutChecker")
         ELSE FormatChecker(val.format_[2], instance.s)
    ELSE Pass

\* numeric<T>::validate
ValidateNumeric(val, instance) ==
    LET value == Convert(val.T, instance)
    IN  Then(IF val.maximum_[1]
                /\ \/ val.exclusiveMaximum_ /\ ~Less(value, val.maximum_[2])
                   \/ Less(val.maximum_[2], value)
             THEN Error("OutOfBounds") ELSE Pass,
             IF val.minimum_[1]
                /\ \/ val.exclusiveMinimum_ /\ ~Less(val.minimum_[2], value)
                   \/ Less(value, val.minimum_[2])
             THEN Error("OutOfBounds") ELSE Pass)

RECURSIVE ValidateNode(_, _, _, _)
RECURSIVE ValidateSeq(_, _, _, _)
RECURSIVE CombinationLoop(_, _, _, _, _, _, _)
RECURSIVE ValidateLogicSeq(_, _, _, _)
RECURSIVE ValidateMembers(_, _, _, _, _)
RECURSIVE ContainsLoop(_, _, _, _)
RECURSIVE RequiredLoop(_, _)

\* validate through a shared_ptr the source does not test
Deref(ns, id, instance, path) ==
    IF id = 0 THEN Result(<<>>, "nullptr") ELSE ValidateNode(ns, id, instance, path)

\* logical_not::validate
ValidateNot(ns, l, instance, path) ==
    LET t == Trial(Deref(ns, l.subschema_, instance, path))
    IN  IF t.end # "returns" THEN Result(<<>>, t.end)
        ELSE IF ~t.failed THEN Error("NotFailure") ELSE Pass

\* the loop validating each sub-schema with the caller's handler e instead
\* of a handler of its own
CombinationLoop_shares_handler(ns, mode, subs, i, count, instance, path) ==
    IF i > Len(subs)
    THEN [r |-> IF mode \in {"anyOf", "oneOf"} /\ count = 0
                THEN Error(IF mode = "anyOf" THEN "AnyOfFailure" ELSE "OneOfNone")
                ELSE Pass,
          seen |-> Len(subs)]
    ELSE LET sub == Deref(ns, subs[i], instance, path)
             t == Trial(sub)
             c == IF t.failed THEN count ELSE count + 1
             after(x) == [r |-> Result(sub.errs \o x.r.errs, x.r.end), seen |-> x.seen]
         IN  IF t.end # "returns" THEN [r |-> Result(sub.errs, t.end), seen |-> i]
             ELSE IF t.failed /\ mode = "allOf"
             THEN after([r |-> Error("AllOfFailure"), seen |-> i])
             ELSE IF mode = "oneOf" /\ c > 1
             THEN after([r |-> Error("OneOfMultiple"), seen |-> i])
             ELSE IF mode = "anyOf" /\ c = 1 THEN after([r |-> Pass, seen |-> i])
             ELSE after(CombinationLoop(ns, mode, subs, i + 1, c, instance, path))

\* the loop with oneOf returning at the first pass, as anyOf does
CombinationLoop_first_pass(ns, mode, subs, i, count, instance, path) ==
    IF i > Len(subs)
    THEN [r |-> IF mode \in {"anyOf", "oneOf"} /\ count = 0
                THEN Error(IF mode = "anyOf" THEN "AnyOfFailure" ELSE "OneOfNone")
                ELSE Pass,
          seen |-> Len(subs)]
    ELSE LET t == Trial(Deref(ns, subs[i], instance, path))
             c == IF t.failed THEN count ELSE count + 1
         IN  IF t.end # "returns" THEN [r |-> Result(<<>>, t.end), seen |-> i]
             ELSE IF t.failed /\ mode = "allOf" THEN [r |-> Error("AllOfFailure"), seen |-> i]
             ELSE IF mode \in {"anyOf", "oneOf"} /\ c = 1 THEN [r |-> Pass, seen |-> i]
             ELSE CombinationLoop(ns, mode, subs, i + 1, c, instance, path)

\* logical_combination::validate, the loop from sub-schema i on with count
\* passes so far, and the statement after the loop.  seen counts the
\* sub-schemas validated.
CombinationLoop(ns, mode, subs, i, count, instance, path) ==
    IF i > Len(subs)
    THEN [r |-> IF mode \in {"anyOf", "oneOf"} /\ count = 0
                THEN Error(IF mode = "anyOf" THEN "AnyOfFailure" ELSE "OneOfNone")
                ELSE Pass,
          seen |-> Len(subs)]
    ELSE LET t == Trial(Deref(ns, subs[i], instance, path))
             c == IF t.failed THEN count ELSE count + 1
         IN  IF t.end # "returns" THEN [r |-> Result(<<>>, t.end), seen |-> i]
             ELSE IF t.failed /\ mode = "allOf" THEN [r |-> Error("AllOfFailure"), seen |-> i]
             ELSE IF mode = "oneOf" /\ c > 1 THEN [r |-> Error("OneOfMultiple"), seen |-> i]
             ELSE IF mode = "anyOf" /\ c = 1 THEN [r |-> Pass, seen |-> i]
             ELSE CombinationLoop(ns, mode, subs, i + 1, c, instance, path)

\* logical_combination::validate
ValidateCombination(ns, l, instance, path) ==
    CombinationLoop(ns, l.combine_logic, l.subschemata_, 1, 0, instance, path)

\* type_schema::validate, the loop over logic_
ValidateLogicSeq(ns, ls, instance, path) ==
    IF ls = <<>> THEN Pass
    ELSE Then(IF Head(ls).k = "logical_not"
              THEN ValidateNot(ns, Head(ls), instance, path)
              ELSE ValidateCombination(ns, Head(ls), instance, path).r,
              ValidateLogicSeq(ns, Tail(ls), instance, path))

\* required::validate and the same loop of object::validate
RequiredLoop(names, instance) ==
    IF names = <<>> THEN Pass
    ELSE Then(IF Head(names) \in DOMAIN instance.o THEN Pass ELSE Error("MissingRequired"),
              RequiredLoop(Tail(names), instance))

\* object::validate, the loop over the instance's members
ValidateMembers(ns, val, keys, instance, path) ==
    IF keys = <<>> THEN Pass
    ELSE LET p == Head(keys)
         IN  Then(IF p \in DOMAIN val.properties_
                  THEN Deref(ns, val.properties_[p], instance.o[p], path)
                  ELSE IF val.additionalProperties_ # 0
                  THEN ValidateNode(ns, val.additionalProperties_, instance.o[p], path)
                  ELSE Pass,
                  ValidateMembers(ns, val, Tail(keys), instance, path))

\* object::validate
ValidateObject(ns, val, instance, path) ==
    Then(RequiredLoop(val.required_, instance),
         ValidateMembers(ns, val, SortedKeys(DOMAIN instance.o), instance, path))

\* array::validate, the loop over the items with items_schema_
ValidateSeq(ns, id, items, path) ==
    IF items = <<>> THEN Pass
    ELSE Then(ValidateNode(ns, id, Head(items), path),
              ValidateSeq(ns, id, Tail(items), path))

\* array::validate, the loop looking for an item contains_ accepts
ContainsLoop(ns, id, items, path) ==
    IF items = <<>> THEN Error("ContainsNothing")
    ELSE LET t == Trial(ValidateNode(ns, id, Head(items), path))
         IN  IF t.end # "returns" THEN Result(<<>>, t.end)
             ELSE IF ~t.failed THEN Pass
             ELSE ContainsLoop(ns, id, Tail(items), path)

\* array::validate
ValidateArray(ns, val, instance, path) ==
    Then(IF val.items_schema_ # 0
         THEN ValidateSeq(ns, val.items_schema_, instance.a, path) ELSE Pass,
         IF val.contains_ # 0
         THEN ContainsLoop(ns, val.contains_, instance.a, path) ELSE Pass)

\* the validate of a validator type_schema::type_ holds
ValidateType(ns, val, instance, path) ==
    CASE val.k = "string" -> ValidateString(val, instance)
      [] val.k = "numeric" -> ValidateNumeric(val, instance)
      [] val.k = "object" -> ValidateObject(ns, val, instance, path)
      [] val.k = "array" -> ValidateArray(ns, val, instance, path)
      [] OTHER -> Pass

\* type_schema::validate, the if_ section
ValidateIf(ns, n, instance, path) ==
    IF n.if_ = 0 THEN Pass
    ELSE LET t == Trial(ValidateNode(ns, n.if_, instance, path))
         IN  IF t.end # "returns" THEN Result(<<>>, t.end)
             ELSE IF ~t.failed
             THEN (IF n.then_ # 0 THEN ValidateNode(ns, n.then_, instance, path) ELSE Pass)
             ELSE (IF n.else_ # 0 THEN ValidateNode(ns, n.else_, instance, path) ELSE Pass)

\* type_schema::validate
ValidateTypeSchema(ns, n, instance, path) ==
    Then(IF n.type_[instance.t] # NoValidator
         THEN ValidateType(ns, n.type_[instance.t], instance, path)
         ELSE Error("UnexpectedType"),
         Then(ValidateLogicSeq(ns, n.logic_, instance, path),
              ValidateIf(ns, n, instance, path)))

\* schema_ref::validate
ValidateRef(ns, n, instance, path) ==
    IF n.target_ # 0
    THEN ValidateNode(ns, n.target_, instance, path)
    ELSE Error("UnresolvedRef")

\* boolean::validate
ValidateBoolean(n) == IF ~n.true_ THEN Error("FalseSchema") ELSE Pass

\* schema::validate, the virtual call on node id
ValidateNode(ns, id, instance, path) ==
    IF <<id, instance>> \in path THEN Result(<<>>, "recursion")
    ELSE LET n == ns[id]
             deeper == path \cup {<<id, instance>>}
         IN  CASE n.k = "boolean" -> ValidateBoolean(n)
               [] n.k = "schema_ref" -> ValidateRef(ns, n, instance, deeper)
               [] OTHER -> ValidateTypeSchema(ns, n, instance, deeper)

\* root_schema::validate
ValidateRoot(ns, root, instance) ==
    IF root # 0
    THEN ValidateNode(ns, root, instance, {})
    ELSE Error("NoRootSchema")

-----------------------------------------------------------------------------
(* The inputs: root schemas, loaders and instances. *)

Here(frag) == RefStr("", frag)
TypeIs(name) == JObj([type |-> JStr(name)])
RefTo(doc, frag) == JObj("$ref" :> RefStr(doc, frag))
PropertyP(sub) == JObj([p |-> sub])

\* {"type":"integer","minimum":0,"maximum":10}
SBounds == JObj([type |-> JStr("integer"), minimum |-> JNum(0), maximum |-> JNum(10)])

\* {"type":"string","format":"email"}
SFormat == JObj([type |-> JStr("string"), format |-> JStr("email")])

\* {"oneOf":[{"type":"integer"},{"type":"number"},{"type":"string"}]}
SOneOf == JObj([oneOf |-> JArr(<<TypeIs("integer"), TypeIs("number"), TypeIs("string")>>)])

\* {"oneOf":[]}
SOneOfNone == JObj([oneOf |-> JArr(<<>>)])

\* {"definitions":{"a":{"$ref":"#/definitions/b"},"b":{"type":"integer"}},
\*  "properties":{"p":{"$ref":"#/definitions/a"}}}: a refers forward to b
SForward ==
    JObj([definitions |-> JObj([a |-> RefTo("", <<"definitions", "b">>),
                                b |-> TypeIs("integer")]),
          properties |-> PropertyP(RefTo("", <<"definitions", "a">>))])

\* the same with the target first: b refers back to a
SBackward ==
    JObj([definitions |-> JObj([a |-> TypeIs("integer"),
                                b |-> RefTo("", <<"definitions", "a">>)]),
          properties |-> PropertyP(RefTo("", <<"definitions", "b">>))])

\* {"properties":{"p":{"$ref":"#/definitions/c"}}}: nothing is at the pointer
SDangling == JObj([properties |-> PropertyP(RefTo("", <<"definitions", "c">>))])

\* {"$ref":"#"}
SSelf == RefTo("", <<>>)

\* {"definitions":{"a":{"$ref":"#/definitions/b"},"b":{"$ref":"#/definitions/a"}},
\*  "properties":{"p":{"$ref":"#/definitions/a"}}}
SMutual ==
    JObj([definitions |-> JObj([a |-> RefTo("", <<"definitions", "b">>),
                                b |-> RefTo("", <<"definitions", "a">>)]),
          properties |-> PropertyP(RefTo("", <<"definitions", "a">>))])

\* {"type":"object","properties":{"p":{"$ref":"#"}}}: a recursive schema
SRecursive == JObj([type |-> JStr("object"), properties |-> PropertyP(RefTo("", <<>>))])

\* {"properties":{"p":{"$ref":"#/foo"}},"foo":{"type":"integer"}}: the $ref is
\* compiled before the unknown keyword foo is registered
SUnknownAfter ==
    JObj([properties |-> PropertyP(RefTo("", <<"foo">>)), foo |-> TypeIs("integer")])

\* {"definitions":{"a":{"foo":{"type":"integer"}}},
\*  "properties":{"p":{"$ref":"#/definitions/a/foo"}}}: foo is registered first
SUnknownBefore ==
    JObj([definitions |-> JObj([a |-> JObj([foo |-> TypeIs("integer")])]),
          properties |-> PropertyP(RefTo("", <<"definitions", "a", "foo">>))])

\* {"properties":{"p":{"$ref":"#/foo/bar"}},"foo":{"bar":{"type":"integer"}}}
SNestedAfter ==
    JObj([properties |-> PropertyP(RefTo("", <<"foo", "bar">>)),
          foo |-> JObj([bar |-> TypeIs("integer")])])

\* {"definitions":{"a":{"foo":{"bar":{"type":"integer"}}}},
\*  "properties":{"p":{"$ref":"#/definitions/a/foo/bar"}}}
SNestedBefore ==
    JObj([definitions |-> JObj([a |-> JObj([foo |-> JObj([bar |-> TypeIs("integer")])])]),
          properties |-> PropertyP(RefTo("", <<"definitions", "a", "foo", "bar">>))])

\* {"properties":{"p":{"$ref":"ext1"}}}
SExternal == JObj([properties |-> PropertyP(RefTo("ext1", <<>>))])

\* {"definitions":{"a":{"$id":"id1"},"b":{"$id":"id1"}}}
SDuplicateId ==
    JObj([definitions |-> JObj([a |-> JObj("$id" :> RefStr("id1", <<>>)),
                                b |-> JObj("$id" :> RefStr("id1", <<>>))])])

\* {"definitions":{"a":{"foo":{"$id":"#/definitions/a","type":"integer"}}},
\*  "properties":{"p":{"$ref":"#/definitions/a/foo"}}}: compiling the unknown
\* keyword foo registers it a second time, at the pointer of a
SDuplicateInUnknown ==
    JObj([definitions |->
              JObj([a |-> JObj([foo |-> JObj(("$id" :> Here(<<"definitions", "a">>))
                                             @@ [type |-> JStr("integer")])])]),
          properties |-> PropertyP(RefTo("", <<"definitions", "a", "foo">>))])

\* {"anyOf":[{"type":"string"},{"type":"integer"}]}
SAnyOf == JObj([anyOf |-> JArr(<<TypeIs("string"), TypeIs("integer")>>)])

\* {"allOf":[{"type":"integer"},{"type":"string"}]}
SAllOf == JObj([allOf |-> JArr(<<TypeIs("integer"), TypeIs("string")>>)])

\* {"not":{"anyOf":[{"type":"string"},{"type":"integer"}]}}
SNotAnyOf == JObj([not |-> SAnyOf])

\* {"if":{"type":"string"},"then":true}
SIf == JObj([if |-> TypeIs("string"), then |-> JBool(TRUE)])

\* {"contains":{"type":"string"}}
SContains == JObj([contains |-> TypeIs("string")])

\* {"type":"integer","minimum":-5,"maximum":10}
SSignedBounds ==
    JObj([type |-> JStr("integer"), minimum |-> JNum(-5), maximum |-> JNum(10)])

\* {"type":"integer","minimum":0,"exclusiveMinimum":-5,"maximum":10,
\*  "exclusiveMaximum":20}
SFourBounds ==
    JObj([type |-> JStr("integer"), minimum |-> JNum(0), exclusiveMinimum |-> JNum(-5),
          maximum |-> JNum(10), exclusiveMaximum |-> JNum(20)])

\* {"properties":{"p":5}}: the value of p is no schema
SPropertyNumber == JObj([properties |-> PropertyP(JNum(5))])

\* {"definitions":{"a":{"foo":5}},
\*  "properties":{"p":{"$ref":"#/definitions/a/foo"}}}: the unknown keyword
\* foo that the reference promotes is a number
SPromotesNumber ==
    JObj([definitions |-> JObj([a |-> JObj([foo |-> JNum(5)])]),
          properties |-> PropertyP(RefTo("", <<"definitions", "a", "foo">>))])

\* {"definitions":{"c":{"type":"integer"}}}
SDefinesC == JObj([definitions |-> JObj([c |-> TypeIs("integer")])])

RootSchemas ==
    {JBool(TRUE), JNull, SBounds, SFormat, SOneOf, SOneOfNone, SForward, SBackward,
     SDangling, SSelf, SMutual, SRecursive, SUnknownAfter, SUnknownBefore,
     SNestedAfter, SNestedBefore, SExternal, SDuplicateId, SDuplicateInUnknown,
     SAnyOf, SAllOf, SNotAnyOf, SIf, SContains, SSignedBounds, SFourBounds,
     SDefinesC, SPropertyNumber, SPromotesNumber}

\* the schemas of a second set_root_schema call on the same validator
Rebuilds == {SBounds, SDangling, SForward, SDefinesC, JNull}

\* the documents of the loaders: "chain" serves ext1, which refers to ext2;
\* "null" leaves the output value as it was given, null
LoaderDoc(loader, loc) ==
    IF loader = "chain" /\ loc = "ext1"
    THEN JObj([properties |-> PropertyP(RefTo("ext2", <<>>))])
    ELSE IF loader = "chain" /\ loc = "ext2" THEN TypeIs("integer")
    ELSE JNull

\* the validators: json_validator(loader, format)
Validators ==
    {<<"none", FALSE>>, <<"none", TRUE>>, <<"chain", TRUE>>, <<"null", FALSE>>}

Instances ==
    {JNum(5), JInt(5), JNum(-1), JNum(11), JStr("x"), JNull,
     JObj([p |-> JNum(5)]), JObj([p |-> JStr("x")]),
     JObj([p |-> JObj([p |-> JNum(5)])]),
     JArr(<<JNum(5), JStr("x")>>), JArr(<<JNum(5)>>)}

NoResult == Result(<<>>, "none")

-----------------------------------------------------------------------------
(* root_schema::set_root_schema and json_validator::validate *)

\* json_validator::json_validator
Init ==
    /\ \E v \in Validators : loader_ = v[1] /\ format_ = v[2]
    /\ root_ = 0
    /\ files_ = <<>>
    /\ nodes = <<>>
    /\ stack = <<>>
    /\ exc = "none"
    /\ pc = "idle"
    /\ locations = <<>>
    /\ new_schema_loaded = FALSE
    /\ builds = 0
    /\ loads = <<>>
    /\ outcome = <<>>
    /\ swallowed = {}
    /\ lastSchema = JNull
    /\ atCall = [root_ |-> 0, nodes |-> <<>>]
    /\ lastInstance = JNull
    /\ lastResult = NoResult

Registry == <<files_, nodes>>

\* set_root_schema is called: schema::make starts on the root schema
SetRootSchema(schema) ==
    /\ pc = "idle"
    /\ builds < MaxBuilds
    /\ builds > 0 => schema \in Rebuilds
    /\ pc' = "make"
    /\ stack' = <<NewFrame("root", <<>>, <<Uri("", <<>>)>>, schema, NoRef)>>
    /\ builds' = builds + 1
    /\ loads' = <<>>
    /\ lastSchema' = schema
    /\ atCall' = [root_ |-> root_, nodes |-> nodes]
    /\ swallowed' = {}
    /\ lastInstance' = JNull
    /\ lastResult' = NoResult
    /\ UNCHANGED <<root_, exc, locations, new_schema_loaded, outcome>>
    /\ UNCHANGED Registry /\ UNCHANGED Validator

\* set_root_schema, the head of the do loop: the locations are copied
LoopStart ==
    /\ pc = "loop_start"
    /\ pc' = "loop"
    /\ locations' = SortedLocs(DOMAIN files_)
    /\ new_schema_loaded' = FALSE
    /\ UNCHANGED <<root_, stack, exc, swallowed>>
    /\ UNCHANGED Registry /\ UNCHANGED Validator /\ UNCHANGED Callers

AtLocation == pc = "loop" /\ stack = <<>> /\ exc = "none" /\ locations # <<>>

\* set_root_schema, a location that has schemas
LoopSkip ==
    /\ AtLocation
    /\ files_[Head(locations)].schemas # <<>>
    /\ locations' = Tail(locations)
    /\ UNCHANGED <<root_, stack, exc, pc, new_schema_loaded, swallowed>>
    /\ UNCHANGED Registry /\ UNCHANGED Validator /\ UNCHANGED Callers

LoadsSoFar(l, loc) == IF loc \in DOMAIN l THEN l[loc] ELSE 0
RECURSIVE Sum(_, _)
Sum(f, S) == IF S = {} THEN 0 ELSE LET x == CHOOSE x \in S : TRUE IN f[x] + Sum(f, S \ {x})
TotalLoads == Sum(loads, DOMAIN loads)

\* set_root_schema, a location without schemas: the loader is called and
\* schema::make starts on what it returned
LoopLoad ==
    /\ AtLocation
    /\ files_[Head(locations)].schemas = <<>>
    /\ loader_ # "none"
    /\ TotalLoads < MaxLoads
    /\ stack' = <<NewFrame("load", <<>>, <<Uri(Head(locations), <<>>)>>,
                           LoaderDoc(loader_, Head(locations)), NoRef)>>
    /\ loads' = MapInsert(loads, Head(locations), LoadsSoFar(loads, Head(locations)) + 1)
    /\ UNCHANGED <<root_, exc, pc, locations, new_schema_loaded, swallowed>>
    /\ UNCHANGED <<builds, outcome, lastSchema, atCall, lastInstance, lastResult>>
    /\ UNCHANGED Registry /\ UNCHANGED Validator

\* set_root_schema, a location without schemas and no loader: it throws
LoopNoLoader ==
    /\ AtLocation
    /\ files_[Head(locations)].schemas = <<>>
    /\ loader_ = "none"
    /\ exc' = "ExternalRefWithoutLoader"
    /\ UNCHANGED <<root_, stack, pc, locations, new_schema_loaded, swallowed>>
    /\ UNCHANGED Registry /\ UNCHANGED Validator /\ UNCHANGED Callers

\* the end of a pass that returns whether or not a schema was loaded
LoopEnd_one_pass ==
    /\ pc = "loop" /\ stack = <<>> /\ exc = "none" /\ locations = <<>>
    /\ pc' = "idle" /\ outcome' = Append(outcome, "ok")
    /\ UNCHANGED <<root_, stack, exc, locations, new_schema_loaded, swallowed>>
    /\ UNCHANGED <<builds, loads, lastSchema, atCall, lastInstance, lastResult>>
    /\ UNCHANGED Registry /\ UNCHANGED Validator

\* set_root_schema, the end of a pass: again if a schema was loaded, else return
LoopEnd ==
    /\ pc = "loop" /\ stack = <<>> /\ exc = "none" /\ locations = <<>>
    /\ IF new_schema_loaded
       THEN pc' = "loop_start" /\ outcome' = outcome
       ELSE pc' = "idle" /\ outcome' = Append(outcome, "ok")
    /\ UNCHANGED <<root_, stack, exc, locations, new_schema_loaded, swallowed>>
    /\ UNCHANGED <<builds, loads, lastSchema, atCall, lastInstance, lastResult>>
    /\ UNCHANGED Registry /\ UNCHANGED Validator

\* an exception leaves set_root_schema
BuildThrows ==
    /\ exc # "none"
    /\ stack = <<>>
    /\ pc' = "idle"
    /\ outcome' = Append(outcome, exc)
    /\ exc' = "none"
    /\ UNCHANGED <<root_, stack, locations, new_schema_loaded, swallowed>>
    /\ UNCHANGED <<builds, loads, lastSchema, atCall, lastInstance, lastResult>>
    /\ UNCHANGED Registry /\ UNCHANGED Validator

\* a validate that keeps its verdict in place of the root node
Validate_memoises(instance) ==
    /\ pc = "idle"
    /\ lastInstance' = instance
    /\ lastResult' = ValidateRoot(nodes, root_, instance)
    /\ nodes' = IF root_ = 0 THEN nodes
                ELSE [nodes EXCEPT ![root_] = BooleanNode(lastResult'.errs = <<>>)]
    /\ UNCHANGED <<root_, stack, exc, pc, locations, new_schema_loaded, swallowed>>
    /\ UNCHANGED <<builds, loads, outcome, lastSchema, atCall, files_>>
    /\ UNCHANGED Validator

\* json_validator::validate(instance, err)
Validate(instance) ==
    /\ pc = "idle"
    /\ lastInstance' = instance
    /\ lastResult' = ValidateRoot(nodes, root_, instance)
    /\ UNCHANGED <<root_, stack, exc, pc, locations, new_schema_loaded, swallowed>>
    /\ UNCHANGED <<builds, loads, outcome, lastSchema, atCall>>
    /\ UNCHANGED Registry /\ UNCHANGED Validator

Next ==
    \/ \E schema \in RootSchemas : SetRootSchema(schema)
    \/ MakeBegin
    \/ MakeDefinition
    \/ MakeDispatch
    \/ GetOrCreateRef
    \/ PromoteReturn
    \/ PromoteCatch
    \/ SubMake
    \/ TypeSchemaDone
    \/ Insert
    \/ InsertUnknownKeyword
    \/ MakeReturn
    \/ Unwind
    \/ LoopStart
    \/ LoopSkip
    \/ LoopLoad
    \/ LoopNoLoader
    \/ LoopEnd
    \/ BuildThrows
    \/ \E instance \in Instances : Validate(instance)

Spec == Init /\ [][Next]_vars

-----------------------------------------------------------------------------
(* Properties of the registry after set_root_schema. *)

\* the last set_root_schema call returned without throwing
Succeeded == pc = "idle" /\ outcome # <<>> /\ outcome[Len(outcome)] = "ok"

\* the schema_ref nodes get_or_create_ref created
Placeholders == {i \in DOMAIN nodes : nodes[i].k = "schema_ref"}

\* schema_ref i is the entry of unresolved at its own pointer
Listed(i) ==
    LET id == nodes[i].id_
    IN  /\ id.loc \in DOMAIN files_
        /\ id.ptr \in DOMAIN files_[id.loc].unresolved
        /\ files_[id.loc].unresolved[id.ptr] = i

\* schema_ref i delegates to the schema registered at its own pointer and
\* unresolved no longer has an entry there
BoundToRegistered(i) ==
    LET id == nodes[i].id_
    IN  /\ nodes[i].target_ # 0
        /\ id.loc \in DOMAIN files_
        /\ id.ptr \in DOMAIN files_[id.loc].schemas
        /\ files_[id.loc].schemas[id.ptr] = nodes[i].target_
        /\ id.ptr \notin DOMAIN files_[id.loc].unresolved

C2_ValidateTerminates == Succeeded => lastResult.end # "recursion"

\* the node validation finally delegates to from node id: schema_ref nodes
\* are followed to their targets
RECURSIVE Final(_, _, _)
Final(ns, id, seen) ==
    IF id = 0 \/ id \in seen \/ ns[id].k # "schema_ref" \/ ns[id].target_ = 0 THEN id
    ELSE Final(ns, ns[id].target_, seen \cup {id})

\* the node of properties/p of type_schema node id
PropertyNode(ns, id) == ns[id].type_["object"].properties_["p"]

\* the schemas whose properties/p refers to {"type":"integer"}, with the
\* reference compiled before its target is registered and after it
RefOrders ==
    {SForward, SBackward, SUnknownAfter, SUnknownBefore, SNestedAfter, SNestedBefore}

IntegerNode == TypeSchemaNode(TypeIs("integer"), <<>>)

\* what a schema accepts whose only constraint is that member p is an integer
PIsInteger(instance) ==
    (instance.t = "object" /\ "p" \in DOMAIN instance.o)
        => instance.o["p"].t \in {"number_integer", "number_unsigned"}

\* C3: whether get_or_create_ref ran before or after the target of a $ref
\* was registered, the reference finally delegates to the node compiled from
\* the target, so every instance passes or fails alike; for targets that are
\* definitions, unknown keywords, values nested below an unknown keyword and
\* the root of a loaded document.
C3_ForwardEquivalence ==
    /\ (Succeeded /\ lastSchema \in RefOrders) =>
           /\ nodes[Final(nodes, PropertyNode(nodes, root_), {})] = IntegerNode
           /\ lastResult # NoResult =>
                  ((lastResult.errs = <<>>) <=> PIsInteger(lastInstance))
    /\ (Succeeded /\ lastSchema = SExternal) =>
           LET ext1 == Final(nodes, PropertyNode(nodes, root_), {})
           IN  /\ nodes[ext1].k = "type_schema"
               /\ nodes[Final(nodes, PropertyNode(nodes, ext1), {})] = IntegerNode

\* C4: a schema_ref that has a target keeps that target in every step: a
\* placeholder goes from unbound to bound at most once.
C4_BindsOnce ==
    [][\A i \in Placeholders :
          nodes[i].target_ # 0 => nodes'[i].target_ = nodes[i].target_]_vars

\* a placeholder was bound by insert and a later set_root_schema call ran its
\* inserts against the same registry
C4_BoundThenRebuilt ==
    /\ pc = "idle" /\ builds = 2
    /\ \E i \in Placeholders : BoundToRegistered(i)

\* schema::make is about to call insert for a uri that has a schema
InsertsDuplicate ==
    /\ Running("post")
    /\ Top.todo # <<>>
    /\ Head(Top.todo).op = "insert"
    /\ LET uri == Head(Top.todo).uri
       IN  uri.loc \in DOMAIN files_ /\ uri.ptr \in DOMAIN files_[uri.loc].schemas

\* C5: an insert at a (location, pointer) that has a schema throws
\* DuplicateSchema and leaves files_ (schemas, unresolved, unknown_keywords)
\* and every node, so every target_, as they were; and in every step each
\* (location, pointer) that has a schema keeps that same node.
C5_DuplicateInsert ==
    [][/\ InsertsDuplicate =>
              exc' = "DuplicateSchema" /\ files_' = files_ /\ nodes' = nodes
       /\ \A loc \in DOMAIN files_ : \A ptr \in DOMAIN files_[loc].schemas :
              /\ loc \in DOMAIN files_'
              /\ ptr \in DOMAIN files_'[loc].schemas
              /\ files_'[loc].schemas[ptr] = files_[loc].schemas[ptr]]_vars

\* insert has thrown DuplicateSchema while a schema_ref was waiting in
\* unresolved and another was bound
C5_DuplicateThrown ==
    /\ exc = "DuplicateSchema"
    /\ stack # <<>>
    /\ \E i \in Placeholders : nodes[i].target_ = 0 /\ Listed(i)
    /\ \E i \in Placeholders : nodes[i].target_ # 0

\* get_or_create_ref, having called schema::make on the unknown keyword at
\* its uri, returns to schema::make in this step
PromotionReturns ==
    /\ stack # <<>>
    /\ Top.pc \in {"promoting", "promoted"}
    /\ Len(stack') = Len(stack)
    /\ stack'[Len(stack)].pc = "post"

\* C6: when get_or_create_ref returns after the unknown keyword at its uri
\* was compiled into a schema registered there, unknown_keywords holds
\* nothing at that pointer any more, so the pointer is not both a schema and
\* a stored unknown keyword.
C6_PromotedIsErased ==
    [][(/\ PromotionReturns
        /\ Top.id.ptr \in DOMAIN files_[Top.id.loc].schemas)
           => ~JsonAt(files_'[Top.id.loc].unknown_keywords, Top.id.ptr).found]_vars

\* the errors set_root_schema reports to its caller
BuildErrors == {"DuplicateSchema", "ExternalRefWithoutLoader"}

\* C7: a build-time error, once raised, stays in flight until set_root_schema
\* ends with it; no set_root_schema call returns successfully after one
\* of them was raised during it.
C7_BuildErrorsAreFatal ==
    [][/\ exc \in BuildErrors =>
              \/ exc' = exc
              \/ pc' = "idle" /\ outcome' = Append(outcome, exc)
       /\ Succeeded' => swallowed' \cap BuildErrors = {}]_vars

\* the locations of the registry that have no schema
EmptyLocations == {loc \in DOMAIN files_ : DOMAIN files_[loc].schemas = {}}

\* the last set_root_schema call ended, and in its loop over the locations
LoopEnded ==
    /\ pc = "idle" /\ outcome # <<>>
    /\ outcome[Len(outcome)] \in {"ok", "ExternalRefWithoutLoader"}

\* C8: without a loader, a set_root_schema call whose compile of the root
\* schema went through throws ExternalRefWithoutLoader exactly if some
\* location is left without schemas, and calls no loader; with a loader,
\* after a successful return every location has a schema.
C8_LoaderContract ==
    /\ (loader_ = "none" /\ LoopEnded) =>
           /\ (outcome[Len(outcome)] = "ExternalRefWithoutLoader") <=> (EmptyLocations # {})
           /\ DOMAIN loads = {}
    /\ (loader_ # "none" /\ Succeeded) => EmptyLocations = {}

\* a build succeeded after the loader served ext1 and then ext2, the
\* location only the document of ext1 refers to
C8_LoadedChain ==
    /\ Succeeded
    /\ loader_ = "chain"
    /\ {"ext1", "ext2"} \subseteq DOMAIN loads
    /\ {"ext1", "ext2"} \subseteq DOMAIN files_

\* without a loader a build ended with ExternalRefWithoutLoader
C8_NoLoaderThrown ==
    /\ loader_ = "none"
    /\ pc = "idle"
    /\ outcome = <<"ExternalRefWithoutLoader">>
    /\ "ext1" \in EmptyLocations

\* the string validator of type_schema node id
StringOf(ns, id) == ns[id].type_["string"]

\* C9: validating a string against a schema with a format keyword reports
\* FormatWithoutChecker exactly if the validator was built without a format
\* checker; with one, the verdict is the checker's.
C9_FormatDispatch ==
    (/\ Succeeded
     /\ lastSchema = SFormat
     /\ lastResult # NoResult
     /\ lastInstance.t = "string") =>
        /\ ("FormatWithoutChecker" \in Range(lastResult.errs)) <=> ~format_
        /\ format_ => lastResult = FormatChecker(StringOf(nodes, root_).format_[2], lastInstance.s)

\* the schemas that consist of a oneOf
OneOfs == {SOneOf, SOneOfNone}

\* the sub-schemas of logical_combination l that accept the instance
Passing(ns, l, instance) ==
    {i \in DOMAIN l.subschemata_ :
        ~Trial(Deref(ns, l.subschemata_[i], instance, {})).failed}

\* the second smallest element of a set of numbers
Second(S) ==
    LET first == CHOOSE i \in S : \A j \in S : i <= j
    IN  CHOOSE i \in S \ {first} : \A j \in S \ {first} : i <= j

\* C10: oneOf reports nothing iff exactly one sub-schema accepts the
\* instance; with two or more it reports OneOfMultiple alone and has
\* validated no sub-schema after the second accepting one; with none (also
\* for an empty list) it reports OneOfNone alone.
C10_OneOf ==
    (Succeeded /\ lastSchema \in OneOfs /\ lastResult # NoResult) =>
        LET l == nodes[root_].logic_[1]
            passing == Passing(nodes, l, lastInstance)
            run == ValidateCombination(nodes, l, lastInstance, {})
        IN  /\ l.combine_logic = "oneOf"
            /\ lastResult = run.r
            /\ (lastResult.errs = <<>>) <=> (Cardinality(passing) = 1)
            /\ Cardinality(passing) = 1 => run.seen = Len(l.subschemata_)
            /\ Cardinality(passing) > 1 =>
                   lastResult = Error("OneOfMultiple") /\ run.seen = Second(passing)
            /\ passing = {} =>
                   lastResult = Error("OneOfNone") /\ run.seen = Len(l.subschemata_)
            /\ Len(lastResult.errs) <= 1

\* a oneOf of three sub-schemas was validated with an instance the first two
\* accept: OneOfMultiple
C10_SecondPassStops ==
    /\ Succeeded /\ lastSchema = SOneOf
    /\ lastResult = Error("OneOfMultiple")
    /\ Passing(nodes, nodes[root_].logic_[1], lastInstance) = {1, 2}

\* the schemas that are one composite on trial sub-schemas, and the errors
\* that composite reports itself
Composites == {SAnyOf, SAllOf, SOneOf, SOneOfNone, SNotAnyOf, SIf, SContains}

OwnErrors(schema) ==
    CASE schema = SAnyOf -> {"AnyOfFailure"}
      [] schema = SAllOf -> {"AllOfFailure"}
      [] schema \in OneOfs -> {"OneOfNone", "OneOfMultiple"}
      [] schema = SNotAnyOf -> {"NotFailure"}
      [] schema = SContains -> {"ContainsNothing"}
      [] OTHER -> {}

\* C11: what validate delivers to the caller's handler for a composite
\* (not, allOf, anyOf, oneOf, if, contains) is at most one error, the
\* composite's own; no error of a trial sub-schema, nested or not, arrives,
\* so a throwing handler is not triggered when the composite passes.
C11_TrialsIsolated ==
    (Succeeded /\ lastSchema \in Composites /\ lastResult # NoResult) =>
        /\ Range(lastResult.errs) \subseteq OwnErrors(lastSchema)
        /\ Len(lastResult.errs) <= 1

\* an anyOf whose first sub-schema rejects the instance and whose second
\* accepts it delivered nothing
C11_FailingBranchSilent ==
    /\ Succeeded /\ lastSchema = SAnyOf
    /\ lastResult = Pass
    /\ LET l == nodes[root_].logic_[1]
       IN  /\ Trial(Deref(nodes, l.subschemata_[1], lastInstance, {})).failed
           /\ ~Trial(Deref(nodes, l.subschemata_[2], lastInstance, {})).failed

\* the schemas {"type":"integer", bounds}
BoundSchemas == {SBounds, SSignedBounds, SFourBounds}

\* x satisfies every bound keyword of schema v, as integers
InBounds(v, x) ==
    /\ Has(v, "minimum") => v.o["minimum"].n <= x
    /\ Has(v, "maximum") => x <= v.o["maximum"].n
    /\ Has(v, "exclusiveMinimum") => v.o["exclusiveMinimum"].n < x
    /\ Has(v, "exclusiveMaximum") => x < v.o["exclusiveMaximum"].n

\* C12: an integer instance, carried as number_integer or number_unsigned,
\* passes {"type":"integer", bounds} iff it satisfies each of minimum,
\* maximum, exclusiveMinimum and exclusiveMaximum that is present, for bounds
\* of either sign; otherwise OutOfBounds and nothing else is reported.
C12_IntegerBounds ==
    (/\ Succeeded /\ lastSchema \in BoundSchemas /\ lastResult # NoResult
     /\ lastInstance.t \in {"number_integer", "number_unsigned"}) =>
        /\ (lastResult.errs = <<>>) <=> InBounds(lastSchema, lastInstance.n)
        /\ Range(lastResult.errs) \subseteq {"OutOfBounds"}
        /\ lastResult.end = "returns"

\* a call of validate: the validator is idle before and after, and no
\* set_root_schema call starts
ValidateStep == pc = "idle" /\ pc' = "idle" /\ builds' = builds /\ exc = "none"

C14_LoadedOnce == \A loc \in DOMAIN loads : loads[loc] <= 1

\* C15: in every state between registry operations, for each location no
\* pointer is a key of both schemas and unresolved, and every placeholder
\* that unresolved still lists is unbound.
C15_AwaitingOrRegistered ==
    \A loc \in DOMAIN files_ :
        /\ DOMAIN files_[loc].schemas \cap DOMAIN files_[loc].unresolved = {}
        /\ \A ptr \in DOMAIN files_[loc].unresolved :
               nodes[files_[loc].unresolved[ptr]].target_ = 0

\* a second set_root_schema call, with a schema that is not null, on a
\* validator whose first call returned and left a root
SecondCall ==
    /\ builds = 2 /\ outcome # <<>> /\ outcome[1] = "ok"
    /\ atCall.root_ # 0 /\ lastSchema # JNull

\* the second call has ended and failed with DuplicateSchema
C16_Fails == (SecondCall /\ Len(outcome) = 2) => outcome[2] = "DuplicateSchema"

\* the root and the nodes of the first build are as they were at the call
C16_FirstBuildKept ==
    SecondCall =>
        /\ root_ = atCall.root_
        /\ \A i \in DOMAIN atCall.nodes : nodes[i] = atCall.nodes[i]

\* the insert that throws is the one at the root pointer
C16_AtRoot == SecondCall /\ InsertsDuplicate => Head(Top.todo).uri = Uri("", <<>>)

\* C16: a second set_root_schema call on a validator whose first call
\* returned fails with DuplicateSchema, thrown by the insert at the root
\* pointer, and leaves root_ and every node of the first build, the target of
\* each schema_ref included, as they were when it was called.
C16_SecondBuildRejected == C16_Fails /\ C16_AtRoot /\ C16_FirstBuildKept

\* the links of node n that its constructor filled from one schema value
\* each: the properties of an object validator and the sub-schemas of not,
\* allOf, anyOf and oneOf
SlotLinks(n) ==
    IF n.k # "type_schema" THEN {}
    ELSE (IF n.type_["object"].k = "object"
          THEN Range(n.type_["object"].properties_) ELSE {})
         \cup UNION {IF l.k = "logical_combination"
                     THEN Range(l.subschemata_) ELSE {l.subschema_} :
                     l \in Range(n.logic_)}

\* C17: after set_root_schema returned, root_, every entry of every schemas
\* map, every target_ that is set and every sub-schema link filled from a
\* schema value is a node, never nullptr, also when the value compiled or
\* promoted is neither an object nor a boolean; and validate before any
\* set_root_schema reports the one error that no root schema is set.
C17_LinksAreNodes ==
    /\ Succeeded =>
          /\ root_ \in DOMAIN nodes
          /\ \A loc \in DOMAIN files_ : \A ptr \in DOMAIN files_[loc].schemas :
                 files_[loc].schemas[ptr] \in DOMAIN nodes
          /\ \A i \in Placeholders :
                 nodes[i].target_ # 0 => nodes[i].target_ \in DOMAIN nodes
          /\ \A i \in DOMAIN nodes : SlotLinks(nodes[i]) \subseteq DOMAIN nodes
    /\ (builds = 0 /\ lastResult # NoResult) => lastResult = Error("NoRootSchema")

====
